---- MODULE Spec2Model ----
(***************************************************************************)
(* A model of ragoo2_utilities/ContigAlignment.py: the ContigAlignment     *)
(* class (one query sequence, nine parallel lists of alignment fields,     *)
(* derived fields computed by the constructor) and its public operations.  *)
(*                                                                         *)
(* Conventions                                                             *)
(*  - Python lists are sequences; a Python index i is the position i + 1,  *)
(*    so primary_alignment = 1 is Python's index 0 and max_index = 0 is    *)
(*    Python's initial -1.                                                 *)
(*  - A float quotient num/denom is kept exactly as the pair               *)
(*    [num, den]; a zero denominator is Python's ZeroDivisionError.        *)
(*  - Reference headers are strings; Python compares them                  *)
(*    lexicographically, which HeaderRank gives for the headers used.      *)
(*  - A call's outcome is a record whose kind is "instance", "None" or the *)
(*    name of the exception raised.                                        *)
(***************************************************************************)
EXTENDS Integers, Sequences, FiniteSets

VARIABLES args, self, before, call, ret

vars == <<args, self, before, call, ret>>

(***************************************************************************)
(* Bounds of the model and the values inputs are drawn from.               *)
(***************************************************************************)
\* Lengths of the nine lists handed to the constructor (SpecLengths).
MaxLen == 2
\* Rows of a collection (Spec, SpecDerived).
MaxRows == 2
\* Rows of a collection in SpecFilter, SpecMerge and SpecBreak.
MaxFilterRows == 3
MaxMergeRows == 3
MaxBreakRows == 3
\* Reference and query coordinates are drawn from 0..MaxCoord.
MaxCoord == 2
\* In SpecBreak query starts are EndMargin + 0..MaxOffset.
MaxOffset == 3

\* The 5000 of "query_len - 5000" in get_break_candidates (and its default min_dist).
EndMargin == 5000

HeaderOrder == <<"chrA", "chrB">>
Headers == {HeaderOrder[k] : k \in 1..Len(HeaderOrder)}
Strands == {"+", "-"}
QueryHeader == "ctg1"

(***************************************************************************)
(* Python built-ins used by the class.                                     *)
(***************************************************************************)
Min2(a, b) == IF a <= b THEN a ELSE b
Max2(a, b) == IF a >= b THEN a ELSE b

MinOf(S) == CHOOSE x \in S : \A y \in S : x <= y
MaxOf(S) == CHOOSE x \in S : \A y \in S : x >= y

\* str < str on reference headers.
HeaderRank(h) == CHOOSE k \in 1..Len(HeaderOrder) : HeaderOrder[k] = h
HeaderLess(a, b) == HeaderRank(a) < HeaderRank(b)

\* [s[i] for i in hits]
Pick(s, hits) == [k \in 1..Len(hits) |-> s[hits[k]]]

\* [i for i in range(n) if P(i)], as the increasing sequence of a set of positions.
RECURSIVE Ascending(_)
Ascending(S) ==
  IF S = {} THEN <<>>
  ELSE LET m == MinOf(S) IN <<m>> \o Ascending(S \ {m})

\* list.pop(j)
Pop(s, j) == [k \in 1..(Len(s) - 1) |-> IF k < j THEN s[k] ELSE s[k + 1]]

RECURSIVE Sum(_)
Sum(s) == IF s = <<>> THEN 0 ELSE Head(s) + Sum(Tail(s))

\* sorted(intervals, key=lambda tup: tup[0]): a stable sort by the start alone.
RECURSIVE InsertByStart(_, _)
InsertByStart(sorted, t) ==
  IF sorted = <<>> THEN <<t>>
  ELSE IF t[1] < Head(sorted)[1] THEN <<t>> \o sorted
  ELSE <<Head(sorted)>> \o InsertByStart(Tail(sorted), t)

RECURSIVE SortedByStart(_)
SortedByStart(ivs) ==
  IF ivs = <<>> THEN <<>>
  ELSE InsertByStart(SortedByStart(SubSeq(ivs, 1, Len(ivs) - 1)), ivs[Len(ivs)])

(***************************************************************************)
(* The nine parallel lists.                                                *)
(***************************************************************************)
Alns(rh, rl, rs, re, qs, qe, st, al, mq) ==
  [ref_headers |-> rh, ref_lens |-> rl, ref_starts |-> rs, ref_ends |-> re,
   query_starts |-> qs, query_ends |-> qe, strands |-> st, aln_lens |-> al,
   mapqs |-> mq]

\* The lists of an instance.
AlnsOf(o) ==
  Alns(o.ref_headers, o.ref_lens, o.ref_starts, o.ref_ends, o.query_starts,
       o.query_ends, o.strands, o.aln_lens, o.mapqs)

PickAlns(a, hits) ==
  Alns(Pick(a.ref_headers, hits), Pick(a.ref_lens, hits), Pick(a.ref_starts, hits),
       Pick(a.ref_ends, hits), Pick(a.query_starts, hits), Pick(a.query_ends, hits),
       Pick(a.strands, hits), Pick(a.aln_lens, hits), Pick(a.mapqs, hits))

_get_attr_lens(a) ==
  <<Len(a.ref_headers), Len(a.ref_lens), Len(a.ref_starts), Len(a.ref_ends),
    Len(a.query_starts), Len(a.query_ends), Len(a.strands), Len(a.aln_lens),
    Len(a.mapqs)>>

(***************************************************************************)
(* The derived fields.                                                     *)
(***************************************************************************)
\* The sweep over sorted intervals: the union length, with max_end starting at -1.
RECURSIVE Sweep(_, _, _)
Sweep(sorted_intervals, max_end, acc) ==
  IF sorted_intervals = <<>> THEN acc
  ELSE LET j == Head(sorted_intervals)
           start_new_terr == Max2(j[1], max_end)
       IN Sweep(Tail(sorted_intervals), Max2(max_end, j[2]),
                acc + Max2(0, j[2] - start_new_terr))

\* Mutant of UnionLength: the lengths added up, overlaps counted twice.
UnionLength_Summed(ivs) == Sum([k \in 1..Len(ivs) |-> ivs[k][2] - ivs[k][1]])

UnionLength(ivs) == Sweep(SortedByStart(ivs), -1, 0)

\* all_intervals[h]: the (start, end) pairs of the rows of header h, in row order.
IntervalsOf(a, h) ==
  LET idx == Ascending({i \in 1..Len(a.ref_headers) : a.ref_headers[i] = h})
  IN [k \in 1..Len(idx) |-> <<a.ref_starts[idx[k]], a.ref_ends[idx[k]]>>]

\* ranges: header -> union length, for the headers present.
Ranges(a) ==
  [h \in {a.ref_headers[i] : i \in 1..Len(a.ref_headers)} |-> UnionLength(IntervalsOf(a, h))]

\* sorted(list(ranges.items())): the (header, coverage) pairs by header.
RECURSIVE SortedItems(_, _)
SortedItems(ranges, k) ==
  IF k > Len(HeaderOrder) THEN <<>>
  ELSE (IF HeaderOrder[k] \in DOMAIN ranges
          THEN <<<<HeaderOrder[k], ranges[HeaderOrder[k]]>>>>
          ELSE <<>>) \o SortedItems(ranges, k + 1)

\* max(items, key=itemgetter(1)): the first item whose value no later item exceeds.
RECURSIVE MaxByValue(_, _)
MaxByValue(items, best) ==
  IF items = <<>> THEN best
  ELSE MaxByValue(Tail(items), IF Head(items)[2] > best[2] THEN Head(items) ELSE best)

MaxSeq(ranges) ==
  LET items == SortedItems(ranges, 1) IN MaxByValue(Tail(items), Head(items))[1]

SumValues(ranges) ==
  LET items == SortedItems(ranges, 1) IN Sum([k \in 1..Len(items) |-> items[k][2]])

_get_best_ref_alns(a, best_ref_header) ==
  Ascending({i \in 1..Len(a.ref_headers) : a.ref_headers[i] = best_ref_header})

\* The loop of _get_primary_alignment: max_index at its end.
RECURSIVE PrimaryLoop(_, _, _, _)
PrimaryLoop(a, idx, max_index, max_len) ==
  IF idx = <<>> THEN max_index
  ELSE LET i == Head(idx) IN
       IF a.aln_lens[i] > max_len
         THEN PrimaryLoop(a, Tail(idx), i, a.aln_lens[i])
         ELSE PrimaryLoop(a, Tail(idx), max_index, max_len)

_get_primary_alignment(a, best_ref_header) ==
  PrimaryLoop(a, _get_best_ref_alns(a, best_ref_header), 0, -1)

Frac(n, d) == [num |-> n, den |-> d]

\* Mutant of _get_orientation_confidence: the strand compared with "+".
_get_orientation_confidence_Plus(a, best_ref_header, orientation) ==
  LET idx == _get_best_ref_alns(a, best_ref_header)
      num == Sum([k \in 1..Len(idx) |->
                    IF a.strands[idx[k]] = "+" THEN a.aln_lens[idx[k]] ELSE 0])
      denom == Sum([k \in 1..Len(idx) |-> a.aln_lens[idx[k]]])
  IN Frac(num, denom)

_get_orientation_confidence(a, best_ref_header, orientation) ==
  LET idx == _get_best_ref_alns(a, best_ref_header)
      num == Sum([k \in 1..Len(idx) |->
                    IF a.strands[idx[k]] = orientation THEN a.aln_lens[idx[k]] ELSE 0])
      denom == Sum([k \in 1..Len(idx) |-> a.aln_lens[idx[k]]])
  IN Frac(num, denom)

\* Mutant of _get_location_confidence: the numerator adds the interval lengths.
_get_location_confidence_Summed(a, best_ref_header) ==
  LET idx == _get_best_ref_alns(a, best_ref_header)
      all_positions == {a.ref_starts[idx[k]] : k \in 1..Len(idx)}
                         \cup {a.ref_ends[idx[k]] : k \in 1..Len(idx)}
      denom == MaxOf(all_positions) - MinOf(all_positions)
      num == Sum([k \in 1..Len(idx) |-> a.ref_ends[idx[k]] - a.ref_starts[idx[k]]])
  IN Frac(num, denom)

_get_location_confidence(a, best_ref_header) ==
  LET idx == _get_best_ref_alns(a, best_ref_header)
      aln_intervals == [k \in 1..Len(idx) |-> <<a.ref_starts[idx[k]], a.ref_ends[idx[k]]>>]
      all_positions == {a.ref_starts[idx[k]] : k \in 1..Len(idx)}
                         \cup {a.ref_ends[idx[k]] : k \in 1..Len(idx)}
      denom == MaxOf(all_positions) - MinOf(all_positions)
      num == Sweep(SortedByStart(aln_intervals), -1, 0)
  IN Frac(num, denom)

(***************************************************************************)
(* The constructor: the outcome of ContigAlignment(...).                   *)
(***************************************************************************)
Raised(exc, msg) == [kind |-> exc, msg |-> msg]
NoneValue == [kind |-> "None"]

\* Mutant of DimensionError: the emptiness check made first.
DimensionError_EmptyFirst(a) ==
  LET all_lens == _get_attr_lens(a) IN
  IF all_lens[1] = 0
    THEN Raised("ValueError", "ContigAlignment must contain at least one alignment.")
  ELSE IF Cardinality({all_lens[k] : k \in 1..9}) # 1
    THEN Raised("ValueError", "The alignments are incomplete.")
  ELSE NoneValue

\* The two checks the constructor makes before deriving anything: the exception
\* raised, or None.
DimensionError(a) ==
  LET all_lens == _get_attr_lens(a) IN
  IF Cardinality({all_lens[k] : k \in 1..9}) # 1
    THEN Raised("ValueError", "The alignments are incomplete.")
  ELSE IF all_lens[1] = 0
    THEN Raised("ValueError", "ContigAlignment must contain at least one alignment.")
  ELSE NoneValue

ContigAlignment(query_header, query_len, a) ==
  IF DimensionError(a).kind # "None" THEN DimensionError(a)
  ELSE
    LET ranges == Ranges(a)
        max_seq == MaxSeq(ranges)
        total == SumValues(ranges)
    IN
    IF total = 0 THEN Raised("ZeroDivisionError", "_get_best_ref_header")
    ELSE
      LET primary == _get_primary_alignment(a, max_seq)
          orientation == a.strands[primary]
          oc == _get_orientation_confidence(a, max_seq, orientation)
          lc == _get_location_confidence(a, max_seq)
      IN
      IF oc.den = 0 THEN Raised("ZeroDivisionError", "_get_orientation_confidence")
      ELSE IF lc.den = 0 THEN Raised("ZeroDivisionError", "_get_location_confidence")
      ELSE [kind |-> "instance",
            query_header |-> query_header, query_len |-> query_len,
            ref_headers |-> a.ref_headers, ref_lens |-> a.ref_lens,
            ref_starts |-> a.ref_starts, ref_ends |-> a.ref_ends,
            query_starts |-> a.query_starts, query_ends |-> a.query_ends,
            strands |-> a.strands, aln_lens |-> a.aln_lens, mapqs |-> a.mapqs,
            best_ref_header |-> max_seq,
            grouping_confidence |-> Frac(ranges[max_seq], total),
            primary_alignment |-> primary,
            orientation |-> orientation,
            orientation_confidence |-> oc,
            location_confidence |-> lc]

(***************************************************************************)
(* Private helpers that build or reorder instances.                        *)
(***************************************************************************)
_update_alns(o, hits) ==
  IF hits # <<>>
    THEN ContigAlignment(o.query_header, o.query_len, PickAlns(AlnsOf(o), hits))
    ELSE NoneValue

\* The instance with its nine lists replaced and nothing else touched.
SetAlns(o, a) ==
  [o EXCEPT !.ref_headers = a.ref_headers, !.ref_lens = a.ref_lens,
            !.ref_starts = a.ref_starts, !.ref_ends = a.ref_ends,
            !.query_starts = a.query_starts, !.query_ends = a.query_ends,
            !.strands = a.strands, !.aln_lens = a.aln_lens, !.mapqs = a.mapqs]

_rearrange_alns(o, hits) == SetAlns(o, PickAlns(AlnsOf(o), hits))

\* (header, start, end, i) < (header, start, end, j), as Python compares tuples.
RefPosLess(o, i, j) ==
  \/ HeaderLess(o.ref_headers[i], o.ref_headers[j])
  \/ /\ o.ref_headers[i] = o.ref_headers[j]
     /\ \/ o.ref_starts[i] < o.ref_starts[j]
        \/ /\ o.ref_starts[i] = o.ref_starts[j]
           /\ \/ o.ref_ends[i] < o.ref_ends[j]
              \/ o.ref_ends[i] = o.ref_ends[j] /\ i < j

\* (query_start, query_end, i) < (query_start, query_end, j)
QPosLess(o, i, j) ==
  \/ o.query_starts[i] < o.query_starts[j]
  \/ /\ o.query_starts[i] = o.query_starts[j]
     /\ \/ o.query_ends[i] < o.query_ends[j]
        \/ o.query_ends[i] = o.query_ends[j] /\ i < j

\* [i[3] for i in sorted(ref_pos)]
RefHits(o) ==
  LET n == Len(o.ref_headers) IN
  [k \in 1..n |-> CHOOSE i \in 1..n :
                    Cardinality({j \in 1..n : RefPosLess(o, j, i)}) = k - 1]

\* [i[2] for i in sorted(q_pos)]
QueryHits(o) ==
  LET n == Len(o.ref_headers) IN
  [k \in 1..n |-> CHOOSE i \in 1..n :
                    Cardinality({j \in 1..n : QPosLess(o, j, i)}) = k - 1]

_sort_by_ref(o) == _rearrange_alns(o, RefHits(o))
_sort_by_query(o) == _rearrange_alns(o, QueryHits(o))

(***************************************************************************)
(* Public operations: what each returns (or raises).                       *)
(***************************************************************************)
add_alignment(o, r) ==
  ContigAlignment(o.query_header, o.query_len,
    Alns(Append(o.ref_headers, r.ref_header), Append(o.ref_lens, r.ref_len),
         Append(o.ref_starts, r.ref_start), Append(o.ref_ends, r.ref_end),
         Append(o.query_starts, r.query_start), Append(o.query_ends, r.query_end),
         Append(o.strands, r.strand), Append(o.aln_lens, r.aln_len),
         Append(o.mapqs, r.mapq)))

filter_lengths(o, l) ==
  _update_alns(o, Ascending({i \in 1..Len(o.ref_headers) : o.aln_lens[i] >= l}))

filter_mapq(o, q) ==
  _update_alns(o, Ascending({i \in 1..Len(o.ref_headers) : o.mapqs[i] >= q}))

get_best_ref_pos(o) ==
  IF o.primary_alignment \in 1..Len(o.ref_starts)
    THEN [kind |-> "tuple",
          v |-> <<o.ref_starts[o.primary_alignment], o.ref_ends[o.primary_alignment]>>]
    ELSE Raised("IndexError", "list index out of range")

get_best_ref_flanks(o) ==
  LET idx == _get_best_ref_alns(AlnsOf(o), o.best_ref_header)
      ref_pos == {o.ref_starts[idx[k]] : k \in 1..Len(idx)}
                   \cup {o.ref_ends[idx[k]] : k \in 1..Len(idx)}
  IN IF ref_pos = {} THEN Raised("ValueError", "min() arg is an empty sequence")
     ELSE [kind |-> "tuple", v |-> <<MinOf(ref_pos), MaxOf(ref_pos)>>]

\* Mutant of ContainedIdx: the end compared strictly.
ContainedIdx_StrictEnd(o) ==
  {j \in 1..Len(o.ref_headers) :
     \E i \in 1..Len(o.ref_headers) :
        /\ i # j
        /\ o.query_starts[i] <= o.query_starts[j]
        /\ o.query_ends[i] > o.query_ends[j]}

\* Mutant of ContainedIdx: a row compared with itself too.
ContainedIdx_Self(o) ==
  {j \in 1..Len(o.ref_headers) :
     \E i \in 1..Len(o.ref_headers) :
        /\ o.query_starts[i] <= o.query_starts[j]
        /\ o.query_ends[i] >= o.query_ends[j]}

\* cidx: every j that some other i contains on the query axis.
ContainedIdx(o) ==
  {j \in 1..Len(o.ref_headers) :
     \E i \in 1..Len(o.ref_headers) :
        /\ i # j
        /\ o.query_starts[i] <= o.query_starts[j]
        /\ o.query_ends[i] >= o.query_ends[j]}

filter_query_contained(o) ==
  _update_alns(o, Ascending({i \in 1..Len(o.ref_headers) : i \notin ContainedIdx(o)}))

(***************************************************************************)
(* merge_alns: the two-pointer scan over the (aliased) lists of self.      *)
(***************************************************************************)
\* Mutant of MergeCond: the distance compared strictly.
MergeCond_Strict(a, i, j, merge_dist) ==
  /\ a.ref_headers[i] = a.ref_headers[j]
  /\ a.strands[i] = a.strands[j]
  /\ a.ref_starts[j] - a.ref_ends[i] < merge_dist

MergeCond(a, i, j, merge_dist) ==
  /\ a.ref_headers[i] = a.ref_headers[j]
  /\ a.strands[i] = a.strands[j]
  /\ a.ref_starts[j] - a.ref_ends[i] <= merge_dist

\* The body of the if: row i takes the merged values, row j is popped.
MergeInto(a, i, j) ==
  LET rs == Min2(a.ref_starts[i], a.ref_starts[j])
      re == Max2(a.ref_ends[i], a.ref_ends[j])
      qs == Min2(a.query_starts[i], a.query_starts[j])
      qe == Max2(a.query_ends[i], a.query_ends[j])
  IN Alns(Pop(a.ref_headers, j),
          Pop(a.ref_lens, j),
          Pop([a.ref_starts EXCEPT ![i] = rs], j),
          Pop([a.ref_ends EXCEPT ![i] = re], j),
          Pop([a.query_starts EXCEPT ![i] = qs], j),
          Pop([a.query_ends EXCEPT ![i] = qe], j),
          Pop(a.strands, j),
          Pop([a.aln_lens EXCEPT ![i] = re - rs], j),
          Pop([a.mapqs EXCEPT ![i] = (a.mapqs[i] + a.mapqs[j]) \div 2], j))

\* The while loop. Returns the lists at its end and the record of every
\* comparison it made: the lists it saw, i, j and whether it merged.
RECURSIVE MergeScan(_, _, _, _, _)
MergeScan(a, i, j, merge_dist, steps) ==
  IF ~(j <= Len(a.ref_headers)) THEN [alns |-> a, steps |-> steps]
  ELSE IF MergeCond(a, i, j, merge_dist)
    THEN MergeScan(MergeInto(a, i, j), i, j, merge_dist,
                   Append(steps, [alns |-> a, i |-> i, j |-> j, merged |-> TRUE,
                                  out |-> MergeInto(a, i, j)]))
    ELSE MergeScan(a, i + 1, j + 1, merge_dist,
                   Append(steps, [alns |-> a, i |-> i, j |-> j, merged |-> FALSE,
                                  out |-> a]))

\* merge_alns(merge_dist) on o: the instance as the call leaves it, the scan and
\* what is returned. The lists scanned are self's own lists, so self ends with them.
merge_alns(o, merge_dist) ==
  LET sorted == _sort_by_ref(o)
      scan == MergeScan(AlnsOf(sorted), 1, 2, merge_dist, <<>>)
      x == ContigAlignment(o.query_header, o.query_len, scan.alns)
  IN [self |-> SetAlns(sorted, scan.alns),
      sorted |-> AlnsOf(sorted),
      steps |-> scan.steps,
      merged |-> scan.alns,
      ret |-> IF x.kind = "instance" THEN filter_query_contained(x) ELSE x]

(***************************************************************************)
(* get_break_candidates: sorts self by query, then one pass.               *)
(***************************************************************************)
\* Mutant of InBand: the lower bound included.
InBand_Closed(o, i, min_dist) ==
  min_dist <= o.query_starts[i] /\ o.query_starts[i] < o.query_len - EndMargin

\* min_dist < query_starts[i] < query_len - 5000
InBand(o, i, min_dist) ==
  min_dist < o.query_starts[i] /\ o.query_starts[i] < o.query_len - EndMargin

\* The for loop: the row positions appended to intra and to inter.
RECURSIVE BreakLoop(_, _, _, _, _)
BreakLoop(o, i, min_dist, intra, inter) ==
  IF i > Len(o.ref_headers) THEN [intra |-> intra, inter |-> inter]
  ELSE IF InBand(o, i, min_dist)
    THEN IF o.ref_headers[i] = o.ref_headers[i - 1]
           THEN BreakLoop(o, i + 1, min_dist, Append(intra, i), inter)
           ELSE BreakLoop(o, i + 1, min_dist, intra, Append(inter, i))
    ELSE BreakLoop(o, i + 1, min_dist, intra, inter)

get_break_candidates(o, min_dist) ==
  LET sorted == _sort_by_query(o)
      loop == BreakLoop(sorted, 2, min_dist, <<>>, <<>>)
  IN [self |-> sorted,
      ret |-> [kind |-> "tuple",
               intra |-> Pick(sorted.query_starts, loop.intra),
               inter |-> Pick(sorted.query_starts, loop.inter),
               intra_rows |-> loop.intra,
               inter_rows |-> loop.inter]]

(***************************************************************************)
(* Inputs: rows drawn from small sets, laid out as the nine lists.         *)
(***************************************************************************)
Row(h, rl, rs, re, qs, qe, st, al, mq) ==
  [ref_header |-> h, ref_len |-> rl, ref_start |-> rs, ref_end |-> re,
   query_start |-> qs, query_end |-> qe, strand |-> st, aln_len |-> al, mapq |-> mq]

ToAlns(rows) ==
  Alns([k \in 1..Len(rows) |-> rows[k].ref_header],
       [k \in 1..Len(rows) |-> rows[k].ref_len],
       [k \in 1..Len(rows) |-> rows[k].ref_start],
       [k \in 1..Len(rows) |-> rows[k].ref_end],
       [k \in 1..Len(rows) |-> rows[k].query_start],
       [k \in 1..Len(rows) |-> rows[k].query_end],
       [k \in 1..Len(rows) |-> rows[k].strand],
       [k \in 1..Len(rows) |-> rows[k].aln_len],
       [k \in 1..Len(rows) |-> rows[k].mapq])

\* Half-open intervals start <= end over 0..m.
Intervals(m) == {iv \in (0..m) \X (0..m) : iv[1] <= iv[2]}

\* Every list of 1..n rows of RowSet, as constructor arguments.
ArgsOver(n, RowSet, query_len) ==
  {[query_len |-> query_len, alns |-> ToAlns(rows)] :
     rows \in UNION {[1..k -> RowSet] : k \in 1..n}}

InitWith(ArgSet) ==
  /\ args \in ArgSet
  /\ self = NoneValue
  /\ before = NoneValue
  /\ call = [op |-> "none"]
  /\ ret = NoneValue

(***************************************************************************)
(* Actions: one per call a client can make.                                *)
(***************************************************************************)
Construct ==
  /\ call.op = "none"
  /\ \E r \in {ContigAlignment(QueryHeader, args.query_len, args.alns)} :
       /\ self' = IF r.kind = "instance" THEN r ELSE NoneValue
       /\ ret' = r
  /\ before' = self
  /\ call' = [op |-> "__init__"]
  /\ UNCHANGED args

\* A call that only reads self.
Reads(op, result) ==
  /\ self.kind = "instance"
  /\ ret' = result
  /\ call' = op
  /\ before' = self
  /\ UNCHANGED <<args, self>>

NewRows ==
  {Row(h, 100, 0, 1, 0, 1, st, 1, 1) : h \in Headers, st \in Strands}

AddAlignment ==
  \E r \in NewRows :
    /\ self.kind = "instance"
    /\ Len(self.ref_headers) < MaxRows
    /\ Reads([op |-> "add_alignment", row |-> r], add_alignment(self, r))

FilterLengths ==
  \E l \in 0..2 :
    Reads([op |-> "filter_lengths", l |-> l], filter_lengths(self, l))

FilterMapq ==
  \E q \in 0..2 :
    Reads([op |-> "filter_mapq", q |-> q], filter_mapq(self, q))

FilterQueryContained ==
  Reads([op |-> "filter_query_contained"], filter_query_contained(self))

GetBestRefPos ==
  Reads([op |-> "get_best_ref_pos"], get_best_ref_pos(self))

GetBestRefFlanks ==
  Reads([op |-> "get_best_ref_flanks"], get_best_ref_flanks(self))

MergeDists == 0..1

MergeAlns ==
  \E d \in MergeDists :
    /\ self.kind = "instance"
    /\ \E m \in {merge_alns(self, d)} :
         /\ self' = m.self
         /\ ret' = m.ret
         /\ call' = [op |-> "merge_alns", merge_dist |-> d, sorted |-> m.sorted,
                     steps |-> m.steps, merged |-> m.merged]
    /\ before' = self
    /\ UNCHANGED args

MinDists == {EndMargin, EndMargin + 1}

GetBreakCandidates ==
  \E d \in MinDists :
    /\ self.kind = "instance"
    /\ \E b \in {get_break_candidates(self, d)} :
         /\ self' = b.self
         /\ ret' = b.ret
    /\ call' = [op |-> "get_break_candidates", min_dist |-> d]
    /\ before' = self
    /\ UNCHANGED args

(***************************************************************************)
(* Specifications.                                                         *)
(***************************************************************************)
\* Every operation, on collections of general rows.
GeneralRows ==
  {Row(h, 100, iv[1], iv[2], q[1], q[2], st, al, 1) :
     h \in Headers, iv \in {<<0, 1>>, <<0, 2>>, <<1, 2>>}, q \in {<<0, 1>>, <<1, 2>>},
     st \in Strands, al \in {1, 2}}

Init == InitWith(ArgsOver(MaxRows, GeneralRows, 10))

Next ==
  \/ Construct
  \/ AddAlignment
  \/ FilterLengths
  \/ FilterMapq
  \/ FilterQueryContained
  \/ MergeAlns
  \/ GetBreakCandidates
  \/ GetBestRefPos
  \/ GetBestRefFlanks

Spec == Init /\ [][Next]_vars

\* The constructor on nine lists of any lengths.
ListsUpTo(n, v) == UNION {[1..k -> {v}] : k \in 0..n}

InitLengths ==
  InitWith({[query_len |-> 10, alns |-> Alns(rh, rl, rs, re, qs, qe, st, al, mq)] :
              rh \in ListsUpTo(MaxLen, "chrA"), rl \in ListsUpTo(MaxLen, 100),
              rs \in ListsUpTo(MaxLen, 0), re \in ListsUpTo(MaxLen, 1),
              qs \in ListsUpTo(MaxLen, 0), qe \in ListsUpTo(MaxLen, 1),
              st \in ListsUpTo(MaxLen, "+"), al \in ListsUpTo(MaxLen, 1),
              mq \in ListsUpTo(MaxLen, 1)})

NextLengths == Construct
SpecLengths == InitLengths /\ [][NextLengths]_vars

\* The constructor's derived fields: headers, reference intervals, strands and
\* alignment lengths vary.
DerivedRows ==
  {Row(h, 100, iv[1], iv[2], 0, 1, st, al, 1) :
     h \in Headers, iv \in Intervals(MaxCoord), st \in Strands, al \in {0, 1}}

InitDerived == InitWith(ArgsOver(MaxRows, DerivedRows, 10))
NextDerived == Construct
SpecDerived == InitDerived /\ [][NextDerived]_vars

\* filter_query_contained: query spans vary; chrA rows cover [0, 1) of the
\* reference, chrB rows cover nothing.
FilterRows ==
  {Row(hr[1], 100, hr[2], hr[3], q[1], q[2], "+", 1, 1) :
     hr \in {<<"chrA", 0, 1>>, <<"chrB", 1, 1>>}, q \in Intervals(MaxCoord)}

InitFilter == InitWith(ArgsOver(MaxFilterRows, FilterRows, 10))
NextFilter == Construct \/ FilterQueryContained
SpecFilter == InitFilter /\ [][NextFilter]_vars

\* The same collections, with merge_alns, which ends with filter_query_contained.
NextFilterMerge == Construct \/ FilterQueryContained \/ MergeAlns
SpecFilterMerge == InitFilter /\ [][NextFilterMerge]_vars

\* merge_alns: reference intervals vary; a row is of chrA on either strand or of
\* chrB, and its query span and mapping quality are one of two pairs.
MergeRows ==
  {Row(hs[1], 100, iv[1], iv[2], qm[1], qm[2], hs[2], 1, qm[3]) :
     hs \in {<<"chrA", "+">>, <<"chrA", "-">>, <<"chrB", "+">>},
     iv \in Intervals(MaxCoord),
     qm \in {<<0, 1, 1>>, <<1, 2, 4>>}}

InitMerge == InitWith(ArgsOver(MaxMergeRows, MergeRows, 10))
NextMerge == Construct \/ MergeAlns
SpecMerge == InitMerge /\ [][NextMerge]_vars

\* get_break_candidates: headers and query spans around the two bounds vary.
BreakRows ==
  {Row(h, 100, 0, 1, EndMargin + k, EndMargin + k + w, "+", 1, 1) :
     h \in Headers, k \in 0..MaxOffset, w \in 0..1}

InitBreak == InitWith(ArgsOver(MaxBreakRows, BreakRows, 2 * EndMargin + MaxOffset))
NextBreak == Construct \/ GetBreakCandidates
SpecBreak == InitBreak /\ [][NextBreak]_vars

(***************************************************************************)
(* Properties of the constructor.                                          *)
(***************************************************************************)
Constructed == call.op = "__init__"

\* The lengths of the nine input lists.
InputLens ==
  {Len(args.alns.ref_headers), Len(args.alns.ref_lens), Len(args.alns.ref_starts),
   Len(args.alns.ref_ends), Len(args.alns.query_starts), Len(args.alns.query_ends),
   Len(args.alns.strands), Len(args.alns.aln_lens), Len(args.alns.mapqs)}

FailedWith(msg) ==
  /\ ret.kind = "ValueError"
  /\ ret.msg = msg
  /\ DOMAIN ret = {"kind", "msg"}
  /\ self.kind = "None"

\* C3: the constructor raises the dimension error ("The alignments are
\* incomplete.") whenever the nine lists are not all of one length, also when
\* some of them are empty, and the emptiness error whenever their common length
\* is zero; in both cases no instance exists and no derived field was computed.
C3_DimensionThenEmpty ==
  Constructed =>
    /\ Cardinality(InputLens) # 1 => FailedWith("The alignments are incomplete.")
    /\ InputLens = {0} =>
         FailedWith("ContigAlignment must contain at least one alignment.")

\* Lists of different lengths, one of them empty: the dimension error wins.
C3_Witness ==
  /\ Constructed
  /\ 0 \in InputLens
  /\ Cardinality(InputLens) > 1
  /\ ret.kind = "ValueError"
  /\ ret.msg = "The alignments are incomplete."

InputRows == 1..Len(args.alns.ref_headers)
InputHeaders == {args.alns.ref_headers[i] : i \in InputRows}

\* The length of the union of the half-open reference intervals of header h:
\* the number of unit cells [x, x + 1) some interval of h covers.
TrueCover(h) ==
  Cardinality({x \in 0..MaxOf({args.alns.ref_ends[i] : i \in InputRows}) :
                 \E i \in InputRows :
                    /\ args.alns.ref_headers[i] = h
                    /\ args.alns.ref_starts[i] <= x
                    /\ x < args.alns.ref_ends[i]})

RECURSIVE SumOver(_, _)
SumOver(S, f) ==
  IF S = {} THEN 0 ELSE LET x == CHOOSE y \in S : TRUE IN f[x] + SumOver(S \ {x}, f)

\* C4: for a constructed collection, the sweep's coverage of every header is the
\* true length of the union of its intervals, best_ref_header is the
\* lexicographically smallest header of maximal coverage, and
\* grouping_confidence is its coverage over the sum of all coverages.
C4_BestReference ==
  (Constructed /\ ret.kind = "instance") =>
    /\ \A h \in InputHeaders : Ranges(args.alns)[h] = TrueCover(h)
    /\ ret.best_ref_header \in InputHeaders
    /\ \A h \in InputHeaders : TrueCover(h) <= TrueCover(ret.best_ref_header)
    /\ \A h \in InputHeaders :
         TrueCover(h) = TrueCover(ret.best_ref_header) =>
           ~HeaderLess(h, ret.best_ref_header)
    /\ ret.grouping_confidence.num = TrueCover(ret.best_ref_header)
    /\ ret.grouping_confidence.den =
         SumOver(InputHeaders, [h \in InputHeaders |-> TrueCover(h)])

\* Two overlapping intervals of the best reference, given out of order, whose
\* lengths add up to more than their union.
C4_Witness ==
  /\ Constructed
  /\ ret.kind = "instance"
  /\ Len(args.alns.ref_headers) = 2
  /\ args.alns.ref_headers[1] = args.alns.ref_headers[2]
  /\ args.alns.ref_starts[2] < args.alns.ref_starts[1]
  /\ args.alns.ref_starts[1] < args.alns.ref_ends[2]
  /\ args.alns.ref_starts[1] < args.alns.ref_ends[1]
  /\ ret.grouping_confidence.num <
       (args.alns.ref_ends[1] - args.alns.ref_starts[1])
         + (args.alns.ref_ends[2] - args.alns.ref_starts[2])

InUnit(f) == 0 <= f.num /\ f.num <= f.den /\ f.den > 0

ConfidencesInUnit ==
  /\ ret.kind = "instance"
  /\ InUnit(ret.grouping_confidence)
  /\ InUnit(ret.orientation_confidence)
  /\ InUnit(ret.location_confidence)

ValidDimensions == Cardinality(InputLens) = 1 /\ InputLens # {0}

\* C5 as claimed: every input of valid dimensions with ref_start <= ref_end and
\* aln_len >= 0 on every row constructs without a division by zero and with the
\* three confidences in [0, 1].
C5_AsClaimed ==
  (Constructed /\ ValidDimensions
     /\ \A i \in InputRows :
          /\ args.alns.ref_starts[i] <= args.alns.ref_ends[i]
          /\ args.alns.query_starts[i] <= args.alns.query_ends[i]
          /\ args.alns.aln_lens[i] >= 0)
    => ConfidencesInUnit

\* C5 amended: when every row has 0 <= ref_start < ref_end and aln_len >= 1, the
\* constructor divides by no zero and the three confidences lie in [0, 1].
C5_NonDegenerate ==
  (Constructed /\ ValidDimensions
     /\ \A i \in InputRows :
          /\ 0 <= args.alns.ref_starts[i]
          /\ args.alns.ref_starts[i] < args.alns.ref_ends[i]
          /\ args.alns.aln_lens[i] >= 1)
    => ConfidencesInUnit

\* Two non-degenerate rows of one reference with a gap between them and opposite
\* strands: orientation and location confidence are strictly inside (0, 1).
C5_Witness ==
  /\ Constructed
  /\ \A i \in InputRows :
       /\ args.alns.ref_starts[i] < args.alns.ref_ends[i]
       /\ args.alns.aln_lens[i] >= 1
  /\ ret.kind = "instance"
  /\ 0 < ret.orientation_confidence.num
  /\ ret.orientation_confidence.num < ret.orientation_confidence.den
  /\ InUnit(ret.location_confidence)

BestRows == {i \in InputRows : args.alns.ref_headers[i] = ret.best_ref_header}

\* C6 as claimed: orientation_confidence is 1 exactly when every row of the best
\* reference has the same strand.
C6_AsClaimed ==
  (Constructed /\ ret.kind = "instance") =>
    (ret.orientation_confidence.num = ret.orientation_confidence.den
       <=> \A i, j \in BestRows : args.alns.strands[i] = args.alns.strands[j])

\* C6 amended: orientation_confidence is 1 exactly when every row of the best
\* reference whose strand differs from orientation has alignment length 0; so
\* it is 1 whenever all those rows share one strand.
C6_OppositeHasNoLength ==
  (Constructed /\ ret.kind = "instance") =>
    /\ ret.orientation_confidence.num = ret.orientation_confidence.den
         <=> \A i \in BestRows :
               args.alns.strands[i] # ret.orientation => args.alns.aln_lens[i] = 0
    /\ (\A i, j \in BestRows : args.alns.strands[i] = args.alns.strands[j])
         => ret.orientation_confidence.num = ret.orientation_confidence.den

\* Two rows of the best reference on the "-" strand: the confidence is 1.
C6_Witness ==
  /\ Constructed
  /\ ret.kind = "instance"
  /\ Cardinality(BestRows) = 2
  /\ \A i \in BestRows : args.alns.strands[i] = "-"
  /\ ret.orientation_confidence.num = ret.orientation_confidence.den

(***************************************************************************)
(* Properties of the operations. before is the instance as it was when the *)
(* call was made, self the instance as the call left it.                   *)
(***************************************************************************)
BeforeRows == 1..Len(before.ref_headers)

\* The nine fields of row i of o.
RowAt(o, i) ==
  <<o.ref_headers[i], o.ref_lens[i], o.ref_starts[i], o.ref_ends[i],
    o.query_starts[i], o.query_ends[i], o.strands[i], o.aln_lens[i], o.mapqs[i]>>

\* The nine lists of o have n entries each.
HasRows(o, n) ==
  /\ Len(o.ref_headers) = n /\ Len(o.ref_lens) = n /\ Len(o.ref_starts) = n
  /\ Len(o.ref_ends) = n /\ Len(o.query_starts) = n /\ Len(o.query_ends) = n
  /\ Len(o.strands) = n /\ Len(o.aln_lens) = n /\ Len(o.mapqs) = n

\* o and p hold the same rows, each as often as the other.
SameRowsAnyOrder(o, p) ==
  /\ Len(o.ref_headers) = Len(p.ref_headers)
  /\ \A i \in 1..Len(o.ref_headers) :
       Cardinality({k \in 1..Len(o.ref_headers) : RowAt(o, k) = RowAt(o, i)})
         = Cardinality({k \in 1..Len(p.ref_headers) : RowAt(p, k) = RowAt(o, i)})

\* Row j of o lies, on the query axis, inside another row i of o.
QueryContained(o, j) ==
  \E i \in 1..Len(o.ref_headers) :
     /\ i # j
     /\ o.query_starts[i] <= o.query_starts[j]
     /\ o.query_ends[i] >= o.query_ends[j]

Survivors == {j \in BeforeRows : ~QueryContained(before, j)}

\* The k-th smallest member of a set of positions.
Kth(S, k) == CHOOSE x \in S : Cardinality({y \in S : y < x}) = k - 1

DistinctSpans(o) ==
  \A i, j \in 1..Len(o.ref_headers) :
     i # j => <<o.query_starts[i], o.query_ends[i]>> # <<o.query_starts[j], o.query_ends[j]>>

\* C10 as claimed: filter_query_contained never returns None, and neither does
\* merge_alns.
C10_AsClaimed ==
  (call.op \in {"filter_query_contained", "merge_alns"}
     /\ \A i \in BeforeRows : before.query_starts[i] <= before.query_ends[i])
    => ret.kind # "None"

\* C10 amended: when no two rows have the same query span,
\* filter_query_contained keeps at least one row and does not return None;
\* merge_alns does not return None when no two of its merged rows have the
\* same query span.
C10_DistinctSpansKeepOne ==
  /\ (call.op = "filter_query_contained" /\ DistinctSpans(before))
       => (Survivors # {} /\ ret.kind # "None")
  /\ (call.op = "merge_alns" /\ DistinctSpans(call.merged)) => ret.kind # "None"

\* Three rows of distinct query spans, two of them contained in the third.
C10_Witness ==
  /\ call.op = "filter_query_contained"
  /\ Len(before.ref_headers) = 3
  /\ DistinctSpans(before)
  /\ Cardinality(Survivors) = 1
  /\ ret.kind = "instance"

\* Rows k and k + 1 of the lists a are in ascending (header, start, end) order.
RefOrdered(a, k) ==
  \/ HeaderLess(a.ref_headers[k], a.ref_headers[k + 1])
  \/ /\ a.ref_headers[k] = a.ref_headers[k + 1]
     /\ \/ a.ref_starts[k] < a.ref_starts[k + 1]
        \/ /\ a.ref_starts[k] = a.ref_starts[k + 1]
           /\ a.ref_ends[k] <= a.ref_ends[k + 1]

\* The merge condition of the claim, on rows i and j of the lists a.
ShouldMerge(a, i, j, d) ==
  /\ a.ref_headers[i] = a.ref_headers[j]
  /\ a.strands[i] = a.strands[j]
  /\ a.ref_starts[j] - a.ref_ends[i] <= d

\* b is a with row j merged into row i as the claim describes.
IsMergeOf(b, a, i, j) ==
  /\ HasRows(b, Len(a.ref_headers) - 1)
  /\ \A k \in 1..(Len(a.ref_headers) - 1) :
       IF k = i THEN
         /\ b.ref_headers[i] = a.ref_headers[i]
         /\ b.ref_lens[i] = a.ref_lens[i]
         /\ b.strands[i] = a.strands[i]
         /\ b.ref_starts[i] = MinOf({a.ref_starts[i], a.ref_starts[j]})
         /\ b.ref_ends[i] = MaxOf({a.ref_ends[i], a.ref_ends[j]})
         /\ b.query_starts[i] = MinOf({a.query_starts[i], a.query_starts[j]})
         /\ b.query_ends[i] = MaxOf({a.query_ends[i], a.query_ends[j]})
         /\ b.aln_lens[i] = b.ref_ends[i] - b.ref_starts[i]
         /\ 2 * b.mapqs[i] <= a.mapqs[i] + a.mapqs[j]
         /\ a.mapqs[i] + a.mapqs[j] < 2 * b.mapqs[i] + 2
       ELSE IF k < j THEN RowAt(b, k) = RowAt(a, k)
       ELSE RowAt(b, k) = RowAt(a, k + 1)

QueryOrdered(o, k) ==
  \/ o.query_starts[k] < o.query_starts[k + 1]
  \/ /\ o.query_starts[k] = o.query_starts[k + 1]
     /\ o.query_ends[k] <= o.query_ends[k + 1]

\* The bound of the claim on row k of o.
WithinBounds(o, k, min_dist) ==
  min_dist < o.query_starts[k] /\ o.query_starts[k] < o.query_len - 5000

Members(s) == {s[k] : k \in 1..Len(s)}
Increasing(s) == \A k \in 1..(Len(s) - 1) : s[k] < s[k + 1]

\* C9: get_break_candidates puts the rows in ascending (query_start, query_end)
\* order; a row k after the first whose query_start is strictly between
\* min_dist and query_len - 5000 contributes its query_start to intra when its
\* header equals that of row k - 1 and to inter otherwise; no other row
\* contributes, no row contributes to both, and both lists are in query order.
C9_BreakCandidates ==
  call.op = "get_break_candidates" =>
    LET n == Len(self.ref_headers)
        d == call.min_dist
    IN
    /\ SameRowsAnyOrder(self, before)
    /\ \A k \in 1..(n - 1) : QueryOrdered(self, k)
    /\ Increasing(ret.intra_rows) /\ Increasing(ret.inter_rows)
    /\ Members(ret.intra_rows) =
         {k \in 2..n : WithinBounds(self, k, d)
                         /\ self.ref_headers[k] = self.ref_headers[k - 1]}
    /\ Members(ret.inter_rows) =
         {k \in 2..n : WithinBounds(self, k, d)
                         /\ self.ref_headers[k] # self.ref_headers[k - 1]}
    /\ Members(ret.intra_rows) \cap Members(ret.inter_rows) = {}
    /\ ret.intra = [k \in 1..Len(ret.intra_rows) |-> self.query_starts[ret.intra_rows[k]]]
    /\ ret.inter = [k \in 1..Len(ret.inter_rows) |-> self.query_starts[ret.inter_rows[k]]]
    /\ \A k \in 1..(Len(ret.intra) - 1) : ret.intra[k] <= ret.intra[k + 1]
    /\ \A k \in 1..(Len(ret.inter) - 1) : ret.inter[k] <= ret.inter[k + 1]

\* Three rows given out of query order: after the first, one changes the header
\* (inter) and one keeps it (intra).
C9_Witness ==
  /\ call.op = "get_break_candidates"
  /\ Len(before.ref_headers) = 3
  /\ AlnsOf(before) # AlnsOf(self)
  /\ Len(ret.intra) = 1
  /\ Len(ret.inter) = 1
  /\ ret.inter[1] < ret.intra[1]

(***************************************************************************)
(* The instance the caller holds.                                          *)
(***************************************************************************)
PublicOps ==
  {"add_alignment", "filter_lengths", "filter_mapq", "filter_query_contained",
   "merge_alns", "get_break_candidates", "get_best_ref_pos", "get_best_ref_flanks"}

\* C1: a public operation leaves the nine lists of the instance it is called on
\* as they were: the same rows, with the same fields, in the same order.
C1_OperationsLeaveSelf ==
  call.op \in PublicOps => AlnsOf(self) = AlnsOf(before)

BestRefRows(o) == {i \in 1..Len(o.ref_headers) : o.ref_headers[i] = o.best_ref_header}

\* C2: primary_alignment is always a position of the current lists, of a row of
\* best_ref_header that is as long as any row of best_ref_header, orientation is
\* that row's strand, and get_best_ref_pos returns that row's start and end.
C2_PrimaryStaysValid ==
  self.kind = "instance" =>
    /\ self.primary_alignment \in 1..Len(self.ref_headers)
    /\ self.primary_alignment \in BestRefRows(self)
    /\ \A i \in BestRefRows(self) :
         self.aln_lens[i] <= self.aln_lens[self.primary_alignment]
    /\ self.orientation = self.strands[self.primary_alignment]
    /\ call.op = "get_best_ref_pos" =>
         /\ ret.kind = "tuple"
         /\ ret.v = <<self.ref_starts[self.primary_alignment],
                      self.ref_ends[self.primary_alignment]>>

====
